---- MODULE Spec2Model ----
(***************************************************************************)
(* Client-to-gateway transport of the nym mixnet client:                   *)
(*   - MixTrafficController (clients/client-core/src/client/mix_traffic.rs)*)
(*     the single-consumer loop draining the queue of outbound batches;    *)
(*   - BinaryRequest / BinaryResponse (gateway/gateway-requests/src/       *)
(*     types.rs): the tagged, encrypted binary frames;                     *)
(*   - RegistrationHandshake / ClientControlRequest / ServerResponse       *)
(*     (same file): the text frames of the control channel.                *)
(***************************************************************************)
EXTENDS Integers, Sequences, FiniteSets, TLC

(***************************************************************************)
(* Bounds of the model.                                                    *)
(***************************************************************************)
\* the queue is unbounded in the code; the model stops producers at this length
MaxQueue == 2
\* longest batch a producer enqueues
MaxBatchLen == 2
\* number of BatchMixMessageSender handles alive at the start
NumProducers == 2

\* longest packet payload (in bytes of the model) a frame carries
MaxPacketLen == 4
\* longest data payload of a handshake message
MaxDataLen == 2

\* mix_traffic.rs:33
MAX_FAILURE_COUNT == 100

\* Enqueue order is recorded by a ticket, the enqueue sequence number modulo
\* Window.  At most MaxQueue + 1 batches are alive at once (queued or being
\* sent), so the tickets of the live batches are pairwise different.
Window == MaxQueue + 2

NoBatch == [ticket |-> -1, msgs |-> <<>>]

VARIABLES
    mix_rx,                             \* the queue behind BatchMixMessageReceiver
    num_senders,                        \* live BatchMixMessageSender handles
    pc,                                 \* where run() is: "recv", "await_send", "done", "panicked"
    cur,                                \* the batch on_messages was called with
    consecutive_gateway_failure_count,  \* the controller's field
    calls,                              \* gateway operations invoked for cur
    next_ticket,                        \* ticket of the next batch enqueued
    last_sent,                          \* ticket of the last batch handed to the gateway
    streak,                             \* failed sends since the last success (observer)
    prev_streak,                        \* streak before the send that just completed (observer)
    completed,                          \* outcome of the last completed send (observer)
    queued_at_close,                    \* batches queued when the last sender dropped (observer)
    in_flight,                          \* gateway sends started and not yet completed (observer)
    send_refused,                       \* a producer's unbounded_send returned Err (observer)
    assert_failed,                      \* on_messages was entered with an empty batch (observer)
    failed_len,                         \* size of the batch whose send just failed (observer)
    shared_keys,                        \* SharedKeys of the connection
    raw_req,                            \* the bytes handed to a decoder
    origin,                             \* where raw_req comes from: "none", "request", "response", "wire"
    sent,                               \* the plaintext encode was given, when origin is an encoder
    pristine,                           \* raw_req before a byte of it was altered
    tampered,                           \* whether a byte of raw_req was altered
    decoded,                            \* the decoder that ran on raw_req: "none", "request", "response"
    result,                             \* what that decoder returned
    control_msg,                        \* the control message a peer built, if any
    text,                               \* the text frame, if any
    target,                             \* the enum the text frame was read as
    parsed,                             \* what reading the text frame returned, if it was read
    examined,                           \* the ServerResponse that was examined, if any
    implied,                            \* what implies_successful_authentication said of it
    errored                             \* what is_error said of it

codecVars == <<shared_keys, raw_req, origin, sent, pristine, tampered, decoded, result>>

ctlVars == <<mix_rx, num_senders, pc, cur, consecutive_gateway_failure_count,
             calls, next_ticket, last_sent, streak, prev_streak, completed,
             queued_at_close,
             in_flight, send_refused, assert_failed, failed_len>>

textVars == <<control_msg, text, target, parsed, examined, implied, errored>>

vars == <<ctlVars, codecVars, textVars>>

(***************************************************************************)
(* MixMessage and the batches producers enqueue.                           *)
(***************************************************************************)
\* MixMessage(address, packet): a tuple struct
MixMessage(address, packet) == <<address, packet>>

\* The batches pushed on the queue: never empty, the i-th message of a batch
\* is distinct from the others so that order is observable.
Batches == { [i \in 1..n |-> MixMessage(i, i)] : n \in 1..MaxBatchLen }

(***************************************************************************)
(* on_messages, first half: the gateway operation the batch is handed to.  *)
(***************************************************************************)
\* mix_messages.pop().unwrap(): the last element
Pop(mix_messages) == mix_messages[Len(mix_messages)]

\* faulty variant: the last message is popped and single-sent whatever the
\* length, and what is left is batch-sent
GatewayCallsPopThenBatch(mix_messages) ==
    << [op |-> "send_sphinx_packet", msgs |-> <<Pop(mix_messages)>>],
       [op |-> "batch_send_sphinx_packets",
        msgs |-> SubSeq(mix_messages, 1, Len(mix_messages) - 1)] >>

\* faulty variant: a multi-message batch sent as one single-send per message
GatewayCallsPerMessage(mix_messages) ==
    [i \in 1..Len(mix_messages) |->
        [op |-> "send_sphinx_packet", msgs |-> <<mix_messages[i]>>]]

\* The sequence of gateway operations on_messages invokes for a batch.
GatewayCalls(mix_messages) ==
    IF Len(mix_messages) = 1
    THEN << [op |-> "send_sphinx_packet", msgs |-> <<Pop(mix_messages)>>] >>
    ELSE << [op |-> "batch_send_sphinx_packets",
             msgs |-> [i \in 1..Len(mix_messages) |->
                          <<mix_messages[i][1], mix_messages[i][2]>>]] >>

(***************************************************************************)
(* on_messages, second half: the match on the result of the send.          *)
(* Returns the new counter and whether panic! is reached.                  *)
(***************************************************************************)
\* faulty variant: the threshold tested before the increment
OnSendResultTestFirst(count, ok) ==
    IF ok THEN [count |-> 0, panic |-> FALSE]
    ELSE [count |-> count + 1, panic |-> (count = MAX_FAILURE_COUNT)]

\* faulty variant: the threshold tested with > instead of ==
OnSendResultGreaterThan(count, ok) ==
    IF ok THEN [count |-> 0, panic |-> FALSE]
    ELSE [count |-> count + 1, panic |-> (count + 1 > MAX_FAILURE_COUNT)]

\* faulty variant: a success leaves the counter alone
OnSendResultNoReset(count, ok) ==
    IF ok THEN [count |-> count, panic |-> FALSE]
    ELSE [count |-> count + 1, panic |-> (count + 1 = MAX_FAILURE_COUNT)]

OnSendResult(count, ok) ==
    IF ok
    THEN [count |-> 0, panic |-> FALSE]
    ELSE [count |-> count + 1, panic |-> (count + 1 = MAX_FAILURE_COUNT)]

(***************************************************************************)
(* The queue: futures::channel::mpsc::unbounded.                           *)
(***************************************************************************)
\* faulty variant: the receiver loses the batch behind the one it hands out
DequeueLossy(q) ==
    [item |-> Head(q), rest |-> IF Len(q) >= 2 THEN Tail(Tail(q)) ELSE Tail(q)]

\* faulty variant: the receiver hands out the newest batch
DequeueNewest(q) ==
    [item |-> q[Len(q)], rest |-> SubSeq(q, 1, Len(q) - 1)]

\* mix_rx.next() on a non-empty queue: the oldest batch
Dequeue(q) == [item |-> Head(q), rest |-> Tail(q)]

\* faulty variant: a failed batch is put back on the queue
AfterSendRequeue(q, batch, ok) == IF ok THEN q ELSE Append(q, batch)

\* What the completion of a send does to the queue: nothing.
AfterSend(q, batch, ok) == q

\* faulty variant: the stream ends as soon as the queue is empty
StreamEndedWhenEmpty(q, senders) == q = <<>>

\* mix_rx.next() yields None: every sender dropped and nothing left queued
StreamEnded(q, senders) == q = <<>> /\ senders = 0

\* faulty variant: the loop polls the queue while a send is awaited
LoopAtNextWhileSending(p) == p \in {"recv", "await_send"}

\* faulty variant: the loop goes on after the fatal path
LoopAtNextAfterPanic(p) == p \in {"recv", "panicked"}

\* run(): the task is at mix_rx.next().await, which it reaches at the start
\* and each time the awaited on_messages has returned
LoopAtNext(p) == p = "recv"

(***************************************************************************)
(* Actions of the dispatch loop and its producers.                         *)
(***************************************************************************)
\* A producer pushes a batch: unbounded_send on a live sender handle.
Produce(batch) ==
    /\ num_senders > 0
    /\ pc \in {"recv", "await_send"}
    /\ Len(mix_rx) < MaxQueue
    /\ mix_rx' = Append(mix_rx, [ticket |-> next_ticket, msgs |-> batch])
    /\ next_ticket' = (next_ticket + 1) % Window
    /\ UNCHANGED <<codecVars, textVars, in_flight, send_refused, assert_failed, failed_len,
                   num_senders, pc, cur, consecutive_gateway_failure_count,
                   calls, last_sent, streak, prev_streak, completed,
                   queued_at_close>>

\* A producer pushes a batch after the task has ended in panic: the receiver
\* was dropped with the task, unbounded_send returns Err and nothing is queued.
ProduceRefused ==
    /\ num_senders > 0
    /\ pc = "panicked"
    /\ send_refused' = TRUE
    /\ UNCHANGED <<codecVars, textVars, mix_rx, num_senders, pc, cur,
                   consecutive_gateway_failure_count, calls, next_ticket, last_sent,
                   streak, prev_streak, completed, queued_at_close, in_flight,
                   assert_failed, failed_len>>

\* A producer drops its sender handle.
DropSender ==
    /\ num_senders > 0
    /\ num_senders' = num_senders - 1
    /\ queued_at_close' = IF num_senders = 1 THEN Len(mix_rx) ELSE queued_at_close
    /\ UNCHANGED <<codecVars, textVars, in_flight, send_refused, assert_failed, failed_len,
                   mix_rx, pc, cur, consecutive_gateway_failure_count,
                   calls, next_ticket, last_sent, streak, prev_streak, completed>>

\* run(): mix_rx.next() yields a batch; on_messages starts and invokes the
\* gateway operation, then awaits it.  The debug_assert at the entry of
\* on_messages panics on an empty batch in a debug build and is compiled out
\* of a release build: that it was reached with an empty batch is recorded,
\* and the action goes on as the release build does.  What the observers
\* prev_streak and failed_len hold about the last completed send ends here.
Recv ==
    /\ LoopAtNext(pc)
    /\ mix_rx # <<>>
    /\ LET d == Dequeue(mix_rx) IN
        /\ mix_rx' = d.rest
        /\ cur' = d.item
        /\ calls' = GatewayCalls(d.item.msgs)
        /\ last_sent' = d.item.ticket
        /\ assert_failed' = (assert_failed \/ d.item.msgs = <<>>)
    /\ in_flight' = in_flight + 1
    /\ prev_streak' = 0
    /\ failed_len' = 0
    /\ pc' = "await_send"
    /\ UNCHANGED <<codecVars, textVars, send_refused, num_senders,
                   consecutive_gateway_failure_count, next_ticket, streak, completed,
                   queued_at_close>>

\* faulty variant: a failed send adds the number of messages of the batch
SendCompletesCountingMessages(ok) ==
    /\ pc = "await_send"
    /\ LET count == IF ok THEN 0
                    ELSE consecutive_gateway_failure_count + Len(cur.msgs) IN
        /\ consecutive_gateway_failure_count' = count
        /\ pc' = IF count = MAX_FAILURE_COUNT THEN "panicked" ELSE "recv"
    /\ mix_rx' = AfterSend(mix_rx, cur, ok)
    /\ cur' = NoBatch
    /\ calls' = <<>>
    /\ streak' = IF ok THEN 0 ELSE streak + 1
    /\ prev_streak' = streak
    /\ completed' = IF ok THEN "ok" ELSE "err"
    /\ failed_len' = IF ok THEN 0 ELSE Len(cur.msgs)
    /\ in_flight' = in_flight - 1
    /\ UNCHANGED <<codecVars, textVars, send_refused, assert_failed,
                   num_senders, next_ticket, last_sent, queued_at_close>>

\* The awaited send completes with Ok or Err; on_messages matches on it.
SendCompletes(ok) ==
    /\ pc = "await_send"
    /\ LET r == OnSendResult(consecutive_gateway_failure_count, ok) IN
        /\ consecutive_gateway_failure_count' = r.count
        /\ pc' = IF r.panic THEN "panicked" ELSE "recv"
    /\ mix_rx' = AfterSend(mix_rx, cur, ok)
    /\ cur' = NoBatch
    /\ calls' = <<>>
    /\ streak' = IF ok THEN 0 ELSE streak + 1
    /\ prev_streak' = streak
    /\ completed' = IF ok THEN "ok" ELSE "err"
    /\ failed_len' = IF ok THEN 0 ELSE Len(cur.msgs)
    /\ in_flight' = in_flight - 1
    /\ UNCHANGED <<codecVars, textVars, send_refused, assert_failed,
                   num_senders, next_ticket, last_sent, queued_at_close>>

\* run(): mix_rx.next() yields None and the loop ends.
QueueClosed ==
    /\ LoopAtNext(pc)
    /\ StreamEnded(mix_rx, num_senders)
    /\ pc' = "done"
    /\ UNCHANGED <<codecVars, textVars, in_flight, send_refused, assert_failed, failed_len,
                   mix_rx, num_senders, cur, consecutive_gateway_failure_count,
                   calls, next_ticket, last_sent, streak, prev_streak, completed,
             queued_at_close>>

CtlInit ==
    /\ mix_rx = <<>>
    /\ num_senders = NumProducers
    /\ pc = "recv"
    /\ cur = NoBatch
    /\ consecutive_gateway_failure_count = 0
    /\ calls = <<>>
    /\ next_ticket = 0
    /\ last_sent = Window - 1
    /\ streak = 0
    /\ prev_streak = 0
    /\ completed = "none"
    /\ queued_at_close = 0
    /\ in_flight = 0
    /\ send_refused = FALSE
    /\ assert_failed = FALSE
    /\ failed_len = 0

(***************************************************************************)
(* The binary frames of gateway-requests/src/types.rs.                     *)
(*                                                                         *)
(* A byte of the model is one bit, and the sizes are scaled down: the tag  *)
(* is wide enough for the MAC to be injective on the messages of the       *)
(* model, which is how a collision-free MAC is modelled.                   *)
(***************************************************************************)
Byte == {0, 1}

\* length of the encoded NymNodeRoutingAddress that prefixes a forward request
AddrLen == 1

\* PacketSize::ACKPacket / RegularPacket / ExtendedPacket .size(), scaled down
AckPacketSize == 1
RegularPacketSize == 2
ExtendedPacketSize == 3

MaxMsgLen == AddrLen + MaxPacketLen

MacKeys == {0, 1}
EncKeys == {1, 2}

\* SharedKeys: mac_key() and encryption_key()
SharedKeys == [mac_key : MacKeys, encryption_key : EncKeys]

\* GatewayMacSize::to_usize()
MacSize == MaxMsgLen + 3

RECURSIVE Pow2(_)
Pow2(n) == IF n = 0 THEN 1 ELSE 2 * Pow2(n - 1)

RECURSIVE BytesValue(_)
BytesValue(bytes) ==
    IF bytes = <<>> THEN 0
    ELSE 2 * BytesValue(SubSeq(bytes, 1, Len(bytes) - 1)) + bytes[Len(bytes)]

\* all byte strings of length at most n
BytesUpTo(n) == UNION { [1..k -> Byte] : k \in 0..n }

\* compute_keyed_hmac: a tag of MacSize bytes.  Its first MacSize - 1 bytes
\* number the pair (key, data), so tags of different pairs differ as long as
\* data is no longer than MaxMsgLen; the last byte is their parity, so two
\* tags never differ in one byte only.
compute_keyed_hmac(key, data) ==
    LET number == key * (Pow2(MaxMsgLen + 1) - 1) + (Pow2(Len(data)) - 1) + BytesValue(data)
        digits == [i \in 1..(MacSize - 1) |-> (number \div Pow2(MacSize - 1 - i)) % 2]
        RECURSIVE Sum(_)
        Sum(n) == IF n = 0 THEN 0 ELSE digits[n] + Sum(n - 1)
    IN  Append(digits, Sum(MacSize - 1) % 2)

\* recompute_keyed_hmac_and_verify_tag
recompute_keyed_hmac_and_verify_tag(key, data, tag) ==
    compute_keyed_hmac(key, data) = tag

\* the key stream of the stream cipher under the zero IV
KeyStream(key, i) == (key \div Pow2((i - 1) % 2)) % 2

Xor(a, b) == (a + b) % 2

\* stream_cipher::encrypt with zero_iv
stream_cipher_encrypt(key, data) ==
    [i \in 1..Len(data) |-> Xor(data[i], KeyStream(key, i))]

\* stream_cipher::decrypt / decrypt_in_place with zero_iv
stream_cipher_decrypt(key, data) ==
    [i \in 1..Len(data) |-> Xor(data[i], KeyStream(key, i))]

\* SharedKeys::encrypt_and_tag(data, None) as section 4.1 of the
\* specification states it: the tag is computed over the plaintext and is
\* followed by the zero-IV ciphertext.
encrypt_and_tag(keys, data) ==
    compute_keyed_hmac(keys.mac_key, data)
        \o stream_cipher_encrypt(keys.encryption_key, data)

\* NymNodeRoutingAddress::try_from_bytes: the address prefix, or an error
ValidAddress(address) == address[1] = 1

NymNodeRoutingAddress_try_from_bytes(bytes) ==
    IF Len(bytes) >= AddrLen /\ ValidAddress(SubSeq(bytes, 1, AddrLen))
    THEN [ok |-> TRUE, address |-> SubSeq(bytes, 1, AddrLen)]
    ELSE [ok |-> FALSE, address |-> <<>>]

\* PacketSize::get_type(size).is_ok()
PacketSize_get_type_ok(size) ==
    size \in {AckPacketSize, RegularPacketSize, ExtendedPacketSize}

\* SphinxPacket::from_bytes(..).is_ok(): a packet of a known size still has
\* to parse
SphinxPacket_from_bytes_ok(bytes) == bytes # <<>> /\ bytes[1] = 1

\* Results of the decoders: Result<_, GatewayRequestsError>.  steps lists the
\* primitives the decoder ran before it returned.
GatewayRequestsError(kind) == [kind |-> kind, size |-> -1]
RequestOfInvalidSize(n) == [kind |-> "RequestOfInvalidSize", size |-> n]
NoError == GatewayRequestsError("none")
ErrOf(error, steps) == [ok |-> FALSE, error |-> error, value |-> <<>>, steps |-> steps]
Err(kind, steps) == ErrOf(GatewayRequestsError(kind), steps)
Ok(value, steps) == [ok |-> TRUE, error |-> NoError, value |-> value, steps |-> steps]
ForwardSphinx(address, sphinx_packet) ==
    [address |-> address, sphinx_packet |-> sphinx_packet]
NoResult == Err("none", <<>>)

\* raw_req[mac_size..]; the slice panics when raw_req is shorter
SliceFrom(bytes, from) == SubSeq(bytes, from + 1, Len(bytes))
SliceTo(bytes, to) == SubSeq(bytes, 1, to)

\* faulty variant: the length test lets a frame one byte short of the tag through,
\* and slicing the tag off it panics
BinaryResponse_short_check_off_by_one(raw, keys) ==
    IF Len(raw) < MacSize - 1
    THEN Err("TooShortRequest", <<>>)
    ELSE IF Len(raw) < MacSize
    THEN Err("panic", <<>>)
    ELSE IF ~recompute_keyed_hmac_and_verify_tag(
                keys.mac_key, SliceFrom(raw, MacSize), SliceTo(raw, MacSize))
    THEN Err("InvalidMAC", <<"mac">>)
    ELSE Ok(stream_cipher_decrypt(keys.encryption_key, SliceFrom(raw, MacSize)),
            <<"mac", "decrypt">>)

\* faulty variant: the plaintext is returned without decryption
BinaryResponse_no_decrypt(raw, keys) ==
    IF Len(raw) < MacSize
    THEN Err("TooShortRequest", <<>>)
    ELSE IF ~recompute_keyed_hmac_and_verify_tag(
                keys.mac_key, SliceFrom(raw, MacSize), SliceTo(raw, MacSize))
    THEN Err("InvalidMAC", <<"mac">>)
    ELSE Ok(SliceFrom(raw, MacSize), <<"mac">>)

\* BinaryResponse::try_from_encrypted_tagged_bytes
BinaryResponse_try_from_encrypted_tagged_bytes(raw, keys) ==
    IF Len(raw) < MacSize
    THEN Err("TooShortRequest", <<>>)
    ELSE LET mac_tag == SliceTo(raw, MacSize)
             message_bytes == SliceFrom(raw, MacSize)
         IN  IF ~recompute_keyed_hmac_and_verify_tag(keys.mac_key, message_bytes, mac_tag)
             THEN Err("InvalidMAC", <<"mac">>)
             ELSE Ok(stream_cipher_decrypt(keys.encryption_key, message_bytes),
                     <<"mac", "decrypt">>)

\* The part of BinaryRequest::try_from_encrypted_tagged_bytes after the
\* decryption: address, size class, packet.
ParseForwardSphinx(message_bytes, steps) ==
    LET address == NymNodeRoutingAddress_try_from_bytes(message_bytes) IN
    IF ~address.ok
    THEN Err("IncorrectlyEncodedAddress", steps \o <<"address">>)
    ELSE LET sphinx_packet_data == SliceFrom(message_bytes, AddrLen)
             packet_size == Len(sphinx_packet_data)
         IN  IF ~PacketSize_get_type_ok(packet_size)
             THEN ErrOf(RequestOfInvalidSize(packet_size), steps \o <<"address", "size">>)
             ELSE IF ~SphinxPacket_from_bytes_ok(sphinx_packet_data)
             THEN Err("MalformedSphinxPacket", steps \o <<"address", "size", "packet">>)
             ELSE Ok(ForwardSphinx(address.address, sphinx_packet_data),
                     steps \o <<"address", "size", "packet">>)

\* faulty variant: the size reported is that of the whole decrypted message
ParseForwardSphinxWholeSize(message_bytes, steps) ==
    LET address == NymNodeRoutingAddress_try_from_bytes(message_bytes) IN
    IF ~address.ok
    THEN Err("IncorrectlyEncodedAddress", steps \o <<"address">>)
    ELSE LET sphinx_packet_data == SliceFrom(message_bytes, AddrLen)
             packet_size == Len(sphinx_packet_data)
         IN  IF ~PacketSize_get_type_ok(packet_size)
             THEN ErrOf(RequestOfInvalidSize(Len(message_bytes)),
                        steps \o <<"address", "size">>)
             ELSE IF ~SphinxPacket_from_bytes_ok(sphinx_packet_data)
             THEN Err("MalformedSphinxPacket", steps \o <<"address", "size", "packet">>)
             ELSE Ok(ForwardSphinx(address.address, sphinx_packet_data),
                     steps \o <<"address", "size", "packet">>)

\* faulty variant: the request decoder does not verify the tag
BinaryRequest_no_mac_check(raw, keys) ==
    IF Len(raw) < MacSize
    THEN Err("TooShortRequest", <<>>)
    ELSE ParseForwardSphinx(
             stream_cipher_decrypt(keys.encryption_key, SliceFrom(raw, MacSize)),
             <<"decrypt">>)

\* faulty variant: the request decoder reports the size of the whole message
BinaryRequest_whole_size(raw, keys) ==
    IF Len(raw) < MacSize
    THEN Err("TooShortRequest", <<>>)
    ELSE IF ~recompute_keyed_hmac_and_verify_tag(
                keys.mac_key, SliceFrom(raw, MacSize), SliceTo(raw, MacSize))
    THEN Err("InvalidMAC", <<"mac">>)
    ELSE ParseForwardSphinxWholeSize(
             stream_cipher_decrypt(keys.encryption_key, SliceFrom(raw, MacSize)),
             <<"mac", "decrypt">>)

\* faulty variant: the request decoder decrypts and parses first and
\* verifies the tag last
BinaryRequest_parse_before_mac(raw, keys) ==
    IF Len(raw) < MacSize
    THEN Err("TooShortRequest", <<>>)
    ELSE LET r == ParseForwardSphinx(
                      stream_cipher_decrypt(keys.encryption_key, SliceFrom(raw, MacSize)),
                      <<"decrypt">>)
         IN  IF ~r.ok THEN r
             ELSE IF ~recompute_keyed_hmac_and_verify_tag(
                         keys.mac_key, SliceFrom(raw, MacSize), SliceTo(raw, MacSize))
             THEN Err("InvalidMAC", r.steps \o <<"mac">>)
             ELSE Ok(r.value, r.steps \o <<"mac">>)

\* BinaryRequest::try_from_encrypted_tagged_bytes
BinaryRequest_try_from_encrypted_tagged_bytes(raw, keys) ==
    IF Len(raw) < MacSize
    THEN Err("TooShortRequest", <<>>)
    ELSE LET mac_tag == SliceTo(raw, MacSize)
             message_bytes == SliceFrom(raw, MacSize)
         IN  IF ~recompute_keyed_hmac_and_verify_tag(keys.mac_key, message_bytes, mac_tag)
             THEN Err("InvalidMAC", <<"mac">>)
             ELSE ParseForwardSphinx(
                      stream_cipher_decrypt(keys.encryption_key, message_bytes),
                      <<"mac", "decrypt">>)

\* BinaryRequest::into_encrypted_tagged_bytes
BinaryRequest_into_encrypted_tagged_bytes(request, keys) ==
    encrypt_and_tag(keys, request.address \o request.sphinx_packet)

\* BinaryResponse::into_encrypted_tagged_bytes
BinaryResponse_into_encrypted_tagged_bytes(message, keys) ==
    encrypt_and_tag(keys, message)

\* The values a BinaryRequest can hold: a routing address and a sphinx packet
BinaryRequests ==
    { ForwardSphinx(a, p) :
        a \in { x \in [1..AddrLen -> Byte] : ValidAddress(x) },
        p \in { y \in BytesUpTo(MaxPacketLen) :
                  PacketSize_get_type_ok(Len(y)) /\ SphinxPacket_from_bytes_ok(y) } }

(***************************************************************************)
(* Actions on frames.                                                      *)
(***************************************************************************)
CodecIdle(keys) ==
    /\ shared_keys = keys
    /\ raw_req = <<>>
    /\ origin = "none"
    /\ sent = <<>>
    /\ pristine = <<>>
    /\ tampered = FALSE
    /\ decoded = "none"
    /\ result = NoResult

NewFrame(bytes, from, plaintext) ==
    /\ raw_req' = bytes
    /\ origin' = from
    /\ sent' = plaintext
    /\ pristine' = bytes
    /\ tampered' = FALSE
    /\ decoded' = "none"
    /\ result' = NoResult
    /\ UNCHANGED <<ctlVars, textVars, shared_keys>>

\* The peer encodes a forward request.
EncodeRequest ==
    /\ origin = "none"
    /\ \E request \in BinaryRequests :
          NewFrame(BinaryRequest_into_encrypted_tagged_bytes(request, shared_keys),
                   "request", request.address \o request.sphinx_packet)

\* The peer encodes a pushed message.
EncodeResponse ==
    /\ origin = "none"
    /\ \E message \in BytesUpTo(MaxMsgLen) :
          NewFrame(BinaryResponse_into_encrypted_tagged_bytes(message, shared_keys),
                   "response", message)

\* Arbitrary bytes arrive on the binary channel.
Inject ==
    /\ origin = "none"
    /\ \E bytes \in BytesUpTo(MacSize + MaxMsgLen) : NewFrame(bytes, "wire", <<>>)

\* a frame a key holder sealed: the output of an encoder, or bytes whose tag
\* is the MAC of what follows it
Sealed(bytes, keys) ==
    /\ Len(bytes) >= MacSize
    /\ recompute_keyed_hmac_and_verify_tag(
           keys.mac_key, SliceFrom(bytes, MacSize), SliceTo(bytes, MacSize))

\* One byte of a sealed frame is altered on the way.  (Altering other wire
\* bytes gives wire bytes, which Inject covers.)
Tamper ==
    /\ decoded = "none"
    /\ ~tampered
    /\ origin \in {"request", "response"} \/ Sealed(raw_req, shared_keys)
    /\ \E i \in DOMAIN raw_req : \E b \in Byte \ {raw_req[i]} :
           raw_req' = [raw_req EXCEPT ![i] = b]
    /\ tampered' = TRUE
    /\ UNCHANGED <<ctlVars, textVars, shared_keys, origin, sent, pristine, decoded, result>>

DecodeRequest ==
    /\ origin # "none"
    /\ decoded = "none"
    /\ decoded' = "request"
    /\ result' = BinaryRequest_try_from_encrypted_tagged_bytes(raw_req, shared_keys)
    /\ UNCHANGED <<ctlVars, textVars, shared_keys, raw_req, origin, sent, pristine, tampered>>

DecodeResponse ==
    /\ origin # "none"
    /\ decoded = "none"
    /\ decoded' = "response"
    /\ result' = BinaryResponse_try_from_encrypted_tagged_bytes(raw_req, shared_keys)
    /\ UNCHANGED <<ctlVars, textVars, shared_keys, raw_req, origin, sent, pristine, tampered>>

\* The decoded message is consumed and the next frame is awaited.
Discard ==
    /\ decoded # "none"
    /\ raw_req' = <<>>
    /\ origin' = "none"
    /\ sent' = <<>>
    /\ pristine' = <<>>
    /\ tampered' = FALSE
    /\ decoded' = "none"
    /\ result' = NoResult
    /\ UNCHANGED <<ctlVars, textVars, shared_keys>>

(***************************************************************************)
(* The text frames of gateway-requests/src/types.rs: three enums that      *)
(* serde writes as internally tagged JSON objects.  A JSON object is a     *)
(* record: its members by name.  The tag of a variant is its name in       *)
(* camelCase; an alias is a second tag the deserializer accepts.           *)
(***************************************************************************)

\* serde's rename_all = "camelCase" on the variant names of the three enums
CamelCase(variant) ==
    CASE variant = "HandshakePayload" -> "handshakePayload"
      [] variant = "HandshakeError" -> "handshakeError"
      [] variant = "Authenticate" -> "authenticate"
      [] variant = "RegisterHandshakeInitRequest" -> "registerHandshakeInitRequest"
      [] variant = "Register" -> "register"
      [] variant = "Send" -> "send"
      [] variant = "Error" -> "error"

Variant(name, aliases, members) ==
    [name |-> name, tags |-> {CamelCase(name)} \cup aliases, members |-> members]

\* faulty variant: RegisterHandshakeInitRequest without its alias
VariantsNoAlias(enum) ==
    CASE enum = "RegistrationHandshake" ->
           { Variant("HandshakePayload", {}, {"data"}),
             Variant("HandshakeError", {}, {"message"}) }
      [] enum = "ClientControlRequest" ->
           { Variant("Authenticate", {}, {"address", "enc_address", "iv"}),
             Variant("RegisterHandshakeInitRequest", {}, {"data"}) }
      [] enum = "ServerResponse" ->
           { Variant("Authenticate", {}, {"status"}),
             Variant("Register", {}, {"status"}),
             Variant("Send", {}, {"status"}),
             Variant("Error", {}, {"message"}) }

\* the variants of RegistrationHandshake, ClientControlRequest, ServerResponse
Variants(enum) ==
    CASE enum = "RegistrationHandshake" ->
           { Variant("HandshakePayload", {}, {"data"}),
             Variant("HandshakeError", {}, {"message"}) }
      [] enum = "ClientControlRequest" ->
           { Variant("Authenticate", {}, {"address", "enc_address", "iv"}),
             Variant("RegisterHandshakeInitRequest", {"handshakePayload"}, {"data"}) }
      [] enum = "ServerResponse" ->
           { Variant("Authenticate", {}, {"status"}),
             Variant("Register", {}, {"status"}),
             Variant("Send", {}, {"status"}),
             Variant("Error", {}, {"message"}) }

Enums == {"RegistrationHandshake", "ClientControlRequest", "ServerResponse"}

\* a value of one of the enums
Value(enum, variant, fields) == [enum |-> enum, variant |-> variant, fields |-> fields]

Payloads == BytesUpTo(MaxDataLen)
Strings == {"", "a"}

RegistrationHandshakes ==
    { Value("RegistrationHandshake", "HandshakePayload", [data |-> d]) : d \in Payloads }
    \cup { Value("RegistrationHandshake", "HandshakeError", [message |-> m]) : m \in Strings }

ClientControlRequests ==
    { Value("ClientControlRequest", "Authenticate",
            [address |-> s, enc_address |-> s, iv |-> s]) : s \in Strings }
    \cup { Value("ClientControlRequest", "RegisterHandshakeInitRequest", [data |-> d]) :
             d \in Payloads }

ServerResponses ==
    { Value("ServerResponse", v, [status |-> s]) :
        v \in {"Authenticate", "Register", "Send"}, s \in BOOLEAN }
    \cup { Value("ServerResponse", "Error", [message |-> m]) : m \in Strings }

\* serde_json::to_string: the tag member, then the fields of the variant
to_string(value) ==
    [m \in {"type"} \cup DOMAIN value.fields |->
        IF m = "type" THEN CamelCase(value.variant) ELSE value.fields[m]]

ParseError(why) == [ok |-> FALSE, error |-> why]
Parsed(value) == [ok |-> TRUE, value |-> value]

\* serde_json::from_str into an internally tagged enum: the variant is the
\* one a tag or alias of which is the "type" member; its fields are read
\* from the members of their names and every other member is ignored.
from_str(enum, object) ==
    IF "type" \notin DOMAIN object THEN ParseError("missing tag")
    ELSE LET named == { v \in Variants(enum) : object["type"] \in v.tags } IN
         IF named = {} THEN ParseError("unknown variant")
         ELSE LET v == CHOOSE x \in named : TRUE IN
              IF ~(v.members \subseteq DOMAIN object) THEN ParseError("missing field")
              ELSE Parsed(Value(enum, v.name, [m \in v.members |-> object[m]]))

\* ClientControlRequest::try_from(String) and its two siblings
ClientControlRequest_try_from(msg) == from_str("ClientControlRequest", msg)
RegistrationHandshake_try_from(msg) == from_str("RegistrationHandshake", msg)
ServerResponse_try_from(msg) == from_str("ServerResponse", msg)

try_from(enum, msg) ==
    CASE enum = "ClientControlRequest" -> ClientControlRequest_try_from(msg)
      [] enum = "RegistrationHandshake" -> RegistrationHandshake_try_from(msg)
      [] enum = "ServerResponse" -> ServerResponse_try_from(msg)

\* ServerResponse::is_error
is_error(self) == self.variant = "Error"

\* faulty variant: every true status counts
implies_successful_authentication_any_status(self) ==
    IF self.variant \in {"Authenticate", "Register", "Send"} THEN self.fields.status
    ELSE FALSE

\* ServerResponse::implies_successful_authentication
implies_successful_authentication(self) ==
    CASE self.variant = "Authenticate" -> self.fields.status
      [] self.variant = "Register" -> self.fields.status
      [] OTHER -> FALSE

\* the tags a text frame on the wire may carry
Tags == { t : t \in UNION { v.tags : v \in UNION { Variants(e) : e \in Enums } } }
        \cup {"unknown"}

\* text frames that no serializer of the model need have written
WireObjects ==
    { [type |-> t, data |-> d] : t \in Tags, d \in Payloads }
    \cup { [type |-> t, status |-> s] : t \in Tags, s \in BOOLEAN }
    \cup { [type |-> t, data |-> d, message |-> m] :
             t \in Tags, d \in Payloads, m \in Strings }
    \cup { [type |-> t] : t \in Tags }
    \cup { [data |-> d] : d \in Payloads }

(***************************************************************************)
(* Actions on text frames.                                                 *)
(***************************************************************************)
TextIdle ==
    /\ control_msg = <<>>
    /\ text = <<>>
    /\ target = "none"
    /\ parsed = <<>>
    /\ examined = <<>>
    /\ implied = FALSE
    /\ errored = FALSE

\* A peer builds a control_msg of one of the three enums.
Build ==
    /\ control_msg = <<>>
    /\ text = <<>>
    /\ \E value \in RegistrationHandshakes \cup ClientControlRequests \cup ServerResponses :
          control_msg' = <<value>>
    /\ UNCHANGED <<ctlVars, codecVars, text, target, parsed, examined, implied, errored>>

\* TryInto<String> / Into<Message>: the control_msg is written as a text frame.
Serialize ==
    /\ control_msg # <<>>
    /\ text = <<>>
    /\ text' = <<to_string(control_msg[1])>>
    /\ UNCHANGED <<ctlVars, codecVars, control_msg, target, parsed, examined, implied, errored>>

\* A text frame of unknown provenance arrives.
ReceiveText ==
    /\ control_msg = <<>>
    /\ text = <<>>
    /\ \E object \in WireObjects : text' = <<object>>
    /\ UNCHANGED <<ctlVars, codecVars, control_msg, target, parsed, examined, implied, errored>>

\* TryFrom<String>: the receiver reads the text frame as one of the enums.
Deserialize(enum) ==
    /\ text # <<>>
    /\ parsed = <<>>
    /\ target' = enum
    /\ parsed' = <<try_from(enum, text[1])>>
    /\ UNCHANGED <<ctlVars, codecVars, control_msg, text, examined, implied, errored>>

\* the ServerResponse values at hand: the one built, the one read
AtHand ==
    { control_msg[i] : i \in { j \in DOMAIN control_msg : control_msg[j].enum = "ServerResponse" } }
    \cup { parsed[i].value :
             i \in { j \in DOMAIN parsed :
                       parsed[j].ok /\ parsed[j].value.enum = "ServerResponse" } }

\* The holder of a ServerResponse asks what it says.
Examine ==
    /\ examined = <<>>
    /\ \E self \in AtHand :
          /\ examined' = <<self>>
          /\ implied' = implies_successful_authentication(self)
          /\ errored' = is_error(self)
    /\ UNCHANGED <<ctlVars, codecVars, control_msg, text, target, parsed>>

\* The frame is consumed.
Forget ==
    /\ parsed # <<>> \/ examined # <<>>
    /\ control_msg' = <<>>
    /\ text' = <<>>
    /\ target' = "none"
    /\ parsed' = <<>>
    /\ examined' = <<>>
    /\ implied' = FALSE
    /\ errored' = FALSE
    /\ UNCHANGED <<ctlVars, codecVars>>

TextNext ==
    \/ Build
    \/ Serialize
    \/ ReceiveText
    \/ \E enum \in Enums : Deserialize(enum)
    \/ Examine
    \/ Forget

CodecInit == CtlInit /\ TextIdle /\ \E keys \in SharedKeys : CodecIdle(keys)

CodecNext ==
    \/ EncodeRequest
    \/ EncodeResponse
    \/ Inject
    \/ Tamper
    \/ DecodeRequest
    \/ DecodeResponse
    \/ Discard

CodecSpec == CodecInit /\ [][CodecNext]_vars

Init == CtlInit /\ TextIdle /\ CodecIdle(CHOOSE k \in SharedKeys : TRUE)

Next ==
    \/ \E batch \in Batches : Produce(batch)
    \/ ProduceRefused
    \/ DropSender
    \/ Recv
    \/ \E ok \in BOOLEAN : SendCompletes(ok)
    \/ QueueClosed

Spec == Init /\ [][Next]_vars

TextSpec == Init /\ [][TextNext]_vars

\* The dispatch task is scheduled fairly and every awaited send completes.
Fairness ==
    /\ WF_vars(Recv)
    /\ WF_vars(\E ok \in BOOLEAN : SendCompletes(ok))
    /\ WF_vars(QueueClosed)

FairSpec == Spec /\ Fairness

(***************************************************************************)
(* Claims about MixTrafficController.                                      *)
(***************************************************************************)

\* C1: the fatal path is triggered exactly when 100 sends in a row have
\* failed: reached on the 100th failure of a run, on no earlier one.
C1_FatalOnHundredthFailure ==
    (pc = "panicked") <=> (streak = 100)

C1_Witness ==
    pc = "panicked" /\ streak = 100 /\ prev_streak = 99 /\ completed = "err"

\* C2: after a successful send the counter is 0 and the fatal path has not
\* been triggered, whatever the number (below 100) of failures before it; the
\* counter counts only the failures since the last success.
C2_SuccessResetsCounter ==
    /\ completed = "ok" =>
          consecutive_gateway_failure_count = 0 /\ pc # "panicked"
    /\ consecutive_gateway_failure_count = streak

C2_Witness ==
    /\ completed = "ok"
    /\ prev_streak = 99
    /\ consecutive_gateway_failure_count = 0
    /\ pc = "recv"

\* C3: while a batch is being sent exactly one gateway operation has been
\* invoked for it: single-send of its message when it has one message,
\* batch-send of all its messages in order when it has two or more; outside
\* on_messages no operation is pending.
C3_OneGatewayOperationPerBatch ==
    IF pc = "await_send"
    THEN /\ Len(calls) = 1
         /\ Len(cur.msgs) = 1 =>
               calls[1] = [op |-> "send_sphinx_packet", msgs |-> cur.msgs]
         /\ Len(cur.msgs) >= 2 =>
               calls[1] = [op |-> "batch_send_sphinx_packets", msgs |-> cur.msgs]
    ELSE calls = <<>>

C3_Witness ==
    /\ pc = "await_send"
    /\ Len(cur.msgs) >= 2
    /\ Len(calls) = 1
    /\ calls[1].op = "batch_send_sphinx_packets"

\* C4: every send is for the batch enqueued right after the batch of the
\* previous send: batches reach the gateway in enqueue order.
C4_SendsInEnqueueOrder ==
    [][(pc = "recv" /\ pc' = "await_send") =>
          /\ cur'.ticket = (last_sent + 1) % Window
          /\ last_sent' = cur'.ticket]_vars

C4_Witness ==
    /\ pc = "await_send"
    /\ Len(mix_rx) = MaxQueue
    /\ cur.ticket = last_sent
    /\ mix_rx[1].ticket = (last_sent + 1) % Window

\* C5: a batch is handed to the gateway at most once: at most one operation
\* is invoked for the batch in on_messages, and every batch in the queue was
\* enqueued after the last batch sent, so no batch that was sent (failed or
\* not) is in the queue again.
C5_NoRetry ==
    /\ Len(calls) <= 1
    /\ \A i \in DOMAIN mix_rx : mix_rx[i].ticket = (last_sent + i) % Window

C5_Witness ==
    /\ completed = "err"
    /\ pc = "recv"
    /\ cur = NoBatch
    /\ mix_rx # <<>>
    /\ \A i \in DOMAIN mix_rx : mix_rx[i].ticket # last_sent

\* C6: run() returns only when every sender is dropped and every batch
\* enqueued has been handed to the gateway, and then without the fatal path;
\* once every sender is dropped the loop does end.
C6_CleanShutdown ==
    /\ [](pc = "done" =>
            /\ num_senders = 0
            /\ mix_rx = <<>>
            /\ cur = NoBatch
            /\ next_ticket = (last_sent + 1) % Window
            /\ consecutive_gateway_failure_count < 100)
    /\ (num_senders = 0) ~> (pc \in {"done", "panicked"})

C6_Witness ==
    pc = "done" /\ queued_at_close = MaxQueue /\ completed = "err"

\* C14: at most one gateway send is in flight at any time, however many
\* producers enqueue: a send is in flight exactly while on_messages is
\* awaited, and a batch is dequeued only when no send is in flight, the
\* previous batch is done with and the counter accounts for every send
\* completed so far.
C14_OneSendInFlight ==
    /\ [](in_flight <= 1 /\ (in_flight = 1 <=> pc = "await_send"))
    /\ [][Len(mix_rx') < Len(mix_rx) =>
            /\ in_flight = 0
            /\ calls = <<>>
            /\ cur = NoBatch
            /\ consecutive_gateway_failure_count = streak
            /\ in_flight' = 1]_vars

\* a send is in flight while every producer is alive and the queue is full
C14_Witness ==
    /\ pc = "await_send"
    /\ in_flight = 1
    /\ num_senders = NumProducers
    /\ Len(mix_rx) = MaxQueue
    /\ streak > 0

\* C15: once the fatal path has been triggered the dispatch loop is over for
\* good: no batch is dequeued and no send is invoked from then on, whatever
\* is left in the queue and whatever producers do.
C15_FatalIsFinal ==
    [][pc = "panicked" =>
         /\ pc' = "panicked"
         /\ mix_rx' = mix_rx
         /\ cur' = cur
         /\ calls' = calls
         /\ last_sent' = last_sent
         /\ in_flight' = in_flight
         /\ consecutive_gateway_failure_count' = consecutive_gateway_failure_count]_vars

\* the loop has ended in panic with batches left in the queue, and a producer
\* has tried to enqueue since
C15_Witness ==
    /\ pc = "panicked"
    /\ Len(mix_rx) = MaxQueue
    /\ num_senders > 0
    /\ send_refused
    /\ in_flight = 0

C17_CountsSendsNotMessages ==
    /\ [][(pc = "await_send" /\ pc' # "await_send" /\ completed' = "err") =>
            consecutive_gateway_failure_count' = consecutive_gateway_failure_count + 1]_vars
    /\ [](failed_len > 0 => consecutive_gateway_failure_count = prev_streak + 1)

\* the send of a batch of the greatest length failed, after other failures,
\* and the counter went up by one
C17_Witness ==
    /\ completed = "err"
    /\ failed_len = MaxBatchLen
    /\ MaxBatchLen > 1
    /\ prev_streak > 0
    /\ consecutive_gateway_failure_count = prev_streak + 1

\* C18: the counter is always between 0 and 100, it is the number of failed
\* sends since the last successful one (or since the start), and it is 100
\* only in the terminated fatal state: while the loop runs it is at most 99.
C18_CounterBounded ==
    /\ consecutive_gateway_failure_count \in 0..MAX_FAILURE_COUNT
    /\ consecutive_gateway_failure_count = streak
    /\ consecutive_gateway_failure_count = MAX_FAILURE_COUNT => pc = "panicked"
    /\ pc \in {"recv", "await_send", "done"} =>
           consecutive_gateway_failure_count <= MAX_FAILURE_COUNT - 1

\* the loop is running one failure short of the threshold
C18_Witness ==
    /\ pc = "await_send"
    /\ consecutive_gateway_failure_count = MAX_FAILURE_COUNT - 1
    /\ mix_rx # <<>>

\* C19: under fair scheduling of the loop and with every send completing,
\* every batch in the queue is eventually the batch handed to a gateway send,
\* unless the fatal path is triggered; and it is handed over once: a batch
\* being sent is in the queue no longer.
C19_EveryBatchSent ==
    /\ \A t \in 0..(Window - 1) :
          (\E i \in DOMAIN mix_rx : mix_rx[i].ticket = t)
              ~> (cur.ticket = t \/ pc = "panicked")
    /\ [](\A i \in DOMAIN mix_rx : mix_rx[i].ticket # cur.ticket)

\* the batch enqueued last into a full queue, behind a send in flight, is the
\* one being sent, with every producer still alive
C19_Witness ==
    /\ pc = "await_send"
    /\ num_senders = NumProducers
    /\ cur.ticket = MaxQueue
    /\ last_sent = MaxQueue
    /\ completed = "ok"
    /\ mix_rx # <<>>

(***************************************************************************)
(* Claims about the binary frames.                                         *)
(***************************************************************************)
Range(f) == { f[i] : i \in DOMAIN f }

\* bytes is the frame the decoders expect for plaintext: the zero-IV
\* ciphertext of plaintext, preceded by the MAC of that ciphertext
TagOverCiphertext(bytes, keys, plaintext) ==
    LET ciphertext == stream_cipher_encrypt(keys.encryption_key, plaintext) IN
    /\ Len(bytes) = MacSize + Len(plaintext)
    /\ SliceFrom(bytes, MacSize) = ciphertext
    /\ SliceTo(bytes, MacSize) = compute_keyed_hmac(keys.mac_key, ciphertext)

\* C7: an input shorter than the tag makes either decoder return
\* TooShortRequest before it verifies a MAC or decrypts anything.
C7_ShortInputRejected ==
    (decoded # "none" /\ Len(raw_req) < MacSize) =>
        /\ ~result.ok
        /\ result.error = GatewayRequestsError("TooShortRequest")
        /\ result.steps = <<>>

C7_Witness ==
    /\ decoded = "response"
    /\ Len(raw_req) = MacSize - 1
    /\ result.error.kind = "TooShortRequest"

\* C8 as stated: the frame encode produces, with the tag computed over the
\* plaintext, decodes with the same keys to the plaintext.
C8_RoundTripAsStated ==
    (origin = "response" /\ ~tampered /\ decoded = "response") =>
        (result.ok /\ result.value = sent)

\* C8 amended: a frame made of the MAC of the zero-IV ciphertext of p followed
\* by that ciphertext decodes with the same keys to exactly p (for a response),
\* and to the address and packet it carries (for a forward request).
C8_RoundTripTagOverCiphertext ==
    /\ (decoded = "response" /\ ~tampered /\ Len(raw_req) >= MacSize) =>
          \A p \in [1..(Len(raw_req) - MacSize) -> Byte] :
              TagOverCiphertext(raw_req, shared_keys, p) =>
                  (result.ok /\ result.value = p)
    /\ (decoded = "request" /\ ~tampered) =>
          \A request \in BinaryRequests :
              TagOverCiphertext(raw_req, shared_keys,
                                request.address \o request.sphinx_packet) =>
                  (result.ok /\ result.value = request)

C8_Witness ==
    /\ decoded = "response"
    /\ ~tampered
    /\ result.ok
    /\ Len(result.value) = MaxMsgLen
    /\ TagOverCiphertext(raw_req, shared_keys, result.value)
    /\ SliceFrom(raw_req, MacSize) # result.value

C10_InvalidSizeReported ==
    (decoded = "request" /\ Sealed(raw_req, shared_keys)) =>
        LET message == stream_cipher_decrypt(shared_keys.encryption_key,
                                             SliceFrom(raw_req, MacSize))
            n == Len(raw_req) - MacSize - AddrLen
        IN  (/\ Len(message) >= AddrLen
             /\ ValidAddress(message)
             /\ n \notin {AckPacketSize, RegularPacketSize, ExtendedPacketSize}) =>
                /\ ~result.ok
                /\ result.error = [kind |-> "RequestOfInvalidSize", size |-> n]
                /\ "packet" \notin Range(result.steps)

C10_Witness ==
    /\ decoded = "request"
    /\ Sealed(raw_req, shared_keys)
    /\ Len(raw_req) = MacSize + AddrLen + MaxPacketLen
    /\ result.error = [kind |-> "RequestOfInvalidSize", size |-> MaxPacketLen]
    /\ result.steps = <<"mac", "decrypt", "address", "size">>


\* C13: in both decoders the MAC check comes before decryption and before
\* any parsing: a frame of at least tag length whose tag is not the tag
\* recomputed over the bytes that follow it yields InvalidMAC with only the
\* MAC step run, and never IncorrectlyEncodedAddress, RequestOfInvalidSize,
\* MalformedSphinxPacket or a decoded message.
C13_MacCheckedFirst ==
    (/\ decoded # "none"
     /\ Len(raw_req) >= MacSize
     /\ SliceTo(raw_req, MacSize)
            # compute_keyed_hmac(shared_keys.mac_key, SliceFrom(raw_req, MacSize)))
    => /\ ~result.ok
       /\ result.error = GatewayRequestsError("InvalidMAC")
       /\ result.steps = <<"mac">>
       /\ result.error.kind \notin {"IncorrectlyEncodedAddress", "RequestOfInvalidSize",
                                    "MalformedSphinxPacket"}

\* the request decoder answered InvalidMAC on a frame with a wrong tag whose
\* body decrypts to a message with an address that does not parse
C13_Witness ==
    /\ decoded = "request"
    /\ Len(raw_req) > MacSize + AddrLen
    /\ ~Sealed(raw_req, shared_keys)
    /\ ~NymNodeRoutingAddress_try_from_bytes(
            stream_cipher_decrypt(shared_keys.encryption_key,
                                  SliceFrom(raw_req, MacSize))).ok
    /\ result.error.kind = "InvalidMAC"

(***************************************************************************)
(* Claims about the text frames.                                           *)
(***************************************************************************)

\* C11: implies_successful_authentication returns true exactly for
\* Authenticate{status: true} and Register{status: true}; it returns false
\* for a false status, for Send with any status and for every Error.
C11_AuthenticationImplied ==
    examined # <<>> =>
        LET self == examined[1] IN
        /\ implied <=> \/ self = Value("ServerResponse", "Authenticate", [status |-> TRUE])
                       \/ self = Value("ServerResponse", "Register", [status |-> TRUE])
        /\ self.variant = "Send" => ~implied
        /\ self.variant = "Error" => ~implied
        /\ (self.variant \in {"Authenticate", "Register"} /\ ~self.fields.status) => ~implied

\* a Register{status: true} read from a text frame was examined, and so was
\* (in another state) a Send{status: true}
C11_Witness ==
    /\ examined # <<>>
    /\ parsed # <<>>
    /\ target = "ServerResponse"
    /\ examined[1] = Value("ServerResponse", "Register", [status |-> TRUE])
    /\ implied
    /\ ~errored

HandshakePayload(data) == Value("RegistrationHandshake", "HandshakePayload", [data |-> data])
RegisterHandshakeInitRequest(data) ==
    Value("ClientControlRequest", "RegisterHandshakeInitRequest", [data |-> data])

\* C12: for every data payload, the text frame that serializing
\* RegistrationHandshake::HandshakePayload{data} produces carries the legacy
\* tag handshakePayload, and reading it as a ClientControlRequest gives
\* RegisterHandshakeInitRequest{data} with the same data, which is also what
\* the frame with the canonical tag gives.
C12_LegacyTagAccepted ==
    \A data \in Payloads :
        (/\ text = <<to_string(HandshakePayload(data))>>
         /\ target = "ClientControlRequest"
         /\ parsed # <<>>)
        => /\ text[1]["type"] = "handshakePayload"
           /\ parsed[1] = Parsed(RegisterHandshakeInitRequest(data))
           /\ parsed[1] = ClientControlRequest_try_from(
                              [type |-> "registerHandshakeInitRequest", data |-> data])

\* a HandshakePayload with the longest payload was built, serialized and
\* read as a ClientControlRequest
C12_Witness ==
    /\ control_msg # <<>>
    /\ control_msg[1].variant = "HandshakePayload"
    /\ Len(control_msg[1].fields.data) = MaxDataLen
    /\ text = <<to_string(control_msg[1])>>
    /\ target = "ClientControlRequest"
    /\ parsed # <<>>
    /\ parsed[1].ok

====
